---- MODULE Spec2Model ----
(***************************************************************************)
(* Model of SimpleVoiceChatDemo (src/simple-voice-test.js): the in-memory  *)
(* registry of users and rooms, the message table and the storage PDAs.    *)
(* Every method of the class is synchronous, so each call is one atomic    *)
(* action; concurrent callers are interleavings of whole calls.            *)
(*                                                                         *)
(* Identifiers.  createUser, createRoom and sendVoiceMessage build ids     *)
(* from Date.now() and Math.random(); the model numbers them 1, 2, 3, ...  *)
(* in creation order, so the three Maps are sequences indexed by id.  Id 0 *)
(* is an id that was never handed out (an unknown user, room or message).  *)
(* Voice data is an array of bytes of which the code only reads .length,   *)
(* so a payload is modelled by its length.  Timestamps are not modelled.   *)
(***************************************************************************)
EXTENDS Integers, Sequences, FiniteSets, TLC

VARIABLES users, rooms, messages, storage, last, demo, ledger, run, caller, info,
          system, derived

vars == <<users, rooms, messages, storage, last, demo, ledger, run, caller, info,
          system, derived>>

\* the PDA account that ReallocationExample grows and the position of its
\* reallocatePDAToTargetSize
growth == <<ledger, run>>

\* the state outside the four Maps of the instance: the position of the
\* script (runDemo, performanceTest) that drives it, if any, and the
\* reallocation client
drivers == <<demo, ledger, run, caller, info, system, derived>>

\* the SmartContractCaller, the room object that a caller of getRoomInfo
\* holds, the run of callVoiceChatSystem and the addresses that the client
\* helpers have derived
handles == <<caller, info, system, derived>>

----------------------------------------------------------------------------
(* Program constants *)

MaxParticipants == 10

MaxTargets == 10

MaxVoiceData == 29 * 1024

PDACapacity == 30 * 1024

----------------------------------------------------------------------------
(* Bounds of the exploration *)

\* createUser is explored until this many users are registered; the callers
\* that act in Spec are the unknown id 0 and the registered ids 1..MaxUsers
MaxUsers == 1

\* createRoom is explored until this many rooms exist
MaxRooms == 1

\* SpecMessaging starts a send or broadcast only while fewer messages are
\* persisted
MaxStored == 3

\* participants already in room 1 in the crowded initial state: one below
\* the limit
Crowd == MaxParticipants - 1

UnknownId == 0

Callers == 0..MaxUsers

\* storage PDA indexes used as targets
PDAIndexes == {0, 1}

\* payload lengths: 1 KiB, the 29 KiB limit (together exactly one PDA), and
\* one byte above the limit
DataLengths == {1024, 29696, 29697}

RECURSIVE Repeat(_, _)
Repeat(x, n) == IF n = 0 THEN <<>> ELSE <<x>> \o Repeat(x, n - 1)

\* target lists of a broadcast: two short ones, and lists of MaxTargets and
\* MaxTargets + 1 entries
TargetLists ==
    {<<0, 1>>, <<1, 0, 1>>, Repeat(0, MaxTargets), Repeat(0, MaxTargets + 1)}

----------------------------------------------------------------------------
(* Error messages thrown by the class *)

Ok == "ok"
ErrRoomNotFound == "Room not found"
ErrRoomNotActive == "Room is not active"
ErrAlreadyInRoom == "User already in room"
ErrRoomFull == "Room is full (max 10 participants)"
ErrNotFound == "Room or user not found"
ErrNotInRoom == "User not in room"
ErrTooLarge == "Voice data too large (max 29KB)"
ErrStorageFull == "Storage PDA full"
ErrTooManyTargets == "Too many target PDAs (max 10)"
ErrMessageNotFound == "Message not found"
\* reading a property of undefined (a Map.get miss that the code dereferences)
ErrTypeError == "TypeError"

----------------------------------------------------------------------------
(* Array helpers *)

Includes(arr, x) == \E i \in 1..Len(arr) : arr[i] = x

\* Array.prototype.indexOf, 1-based; 0 stands for -1
IndexOf(arr, x) ==
    IF Includes(arr, x)
    THEN CHOOSE i \in 1..Len(arr) : arr[i] = x /\ \A j \in 1..(i - 1) : arr[j] # x
    ELSE 0

\* mutant: splice removes nothing
Splice_keeps(arr, i) == arr

\* arr.splice(i, 1)
Splice(arr, i) == SubSeq(arr, 1, i - 1) \o SubSeq(arr, i + 1, Len(arr))

HasUser(us, userId) == userId \in 1..Len(us)

HasRoom(rs, roomId) == roomId \in 1..Len(rs)

----------------------------------------------------------------------------
(* The checks of the methods, one definition per condition *)

\* mutant: the capacity check looks at the payload alone, not at what the
\* PDA already holds
StoragePDAFull_ignoresUsed(pda, len) == len > pda.capacity

\* mutant: the participant limit is tested one too late
RoomIsFull_offByOne(room) == Len(room.participants) > MaxParticipants

RoomIsFull(room) == Len(room.participants) >= MaxParticipants

\* mutant: an empty room is never deactivated
RoomIsEmpty_never(room) == FALSE

\* mutant: the room is deactivated while one participant is still in it
RoomIsEmpty_early(room) == Len(room.participants) <= 1

RoomIsEmpty(room) == Len(room.participants) = 0

\* mutant: the sender's membership is not tested
NotInRoom_never(room, userId) == FALSE

NotInRoom(room, userId) == ~Includes(room.participants, userId)

\* mutant: a payload of exactly the limit is rejected
VoiceDataTooLarge_atLimit(len) == len >= MaxVoiceData

VoiceDataTooLarge(len) == len > MaxVoiceData

\* mutant: a payload that fits exactly is rejected
StoragePDAFull_exactFit(pda, len) == pda.used + len >= pda.capacity

StoragePDAFull(pda, len) == pda.used + len > pda.capacity

\* mutant: a list of exactly MaxTargets targets is rejected
TooManyTargetPDAs_offByOne(targetPDAs) == Len(targetPDAs) >= MaxTargets

TooManyTargetPDAs(targetPDAs) == Len(targetPDAs) > MaxTargets

----------------------------------------------------------------------------
(* Records *)

NewUser == [joinedRooms |-> <<>>, messagesSent |-> 0]

\* mutant: the host is not put into the new room
NewRoom_noHost(hostUserId) ==
    [host |-> hostUserId, participants |-> <<>>,
     isActive |-> TRUE, messageCount |-> 0]

NewRoom(hostUserId) ==
    [host |-> hostUserId, participants |-> <<hostUserId>>,
     isActive |-> TRUE, messageCount |-> 0]

NewStoragePDA(targetPDAIndex) ==
    [index |-> targetPDAIndex, capacity |-> PDACapacity, used |-> 0,
     messages |-> <<>>]

\* mutant: the sequence number is taken before it is advanced
NextSequenceNumber_same(room) == room.messageCount

\* const sequenceNumber = room.messageCount + 1
NextSequenceNumber(room) == room.messageCount + 1

\* mutant: every send starts its PDA anew
EnsureStoragePDA_reset(st, targetPDAIndex) ==
    (targetPDAIndex :> NewStoragePDA(targetPDAIndex)) @@ st

\* the storage Map after if (!this.storage.has(storageKey)) this.storage.set(...)
EnsureStoragePDA(st, targetPDAIndex) ==
    IF targetPDAIndex \in DOMAIN st
    THEN st
    ELSE st @@ (targetPDAIndex :> NewStoragePDA(targetPDAIndex))

\* mutant: the message is listed but its bytes are not counted
StoreInPDA_uncounted(storagePDA, len, messageId) ==
    [storagePDA EXCEPT !.messages = Append(@, messageId)]

\* storagePDA.used += voiceData.length; storagePDA.messages.push(messageId)
StoreInPDA(storagePDA, len, messageId) ==
    [storagePDA EXCEPT !.used = @ + len, !.messages = Append(@, messageId)]

\* the outcome of the latest call: the method, the target list it was given
\* (broadcastVoiceMessage only), the error it threw (Ok if none) and the ids
\* it returned
Call(op, targetPDAs, err, ret) ==
    [op |-> op, targetPDAs |-> targetPDAs, err |-> err, ret |-> ret]

\* the four Maps of one instance
State(us, rs, ms, st) == [users |-> us, rooms |-> rs, messages |-> ms, storage |-> st]

Cur == State(users, rooms, messages, storage)

----------------------------------------------------------------------------
(* sendVoiceMessage as a function of the instance's state: the state after *)
(* the call, the error thrown (Ok if none) and the message id returned.    *)

sendVoiceMessage(S, userId, roomId, len, targetPDAIndex) ==
    IF ~HasRoom(S.rooms, roomId) \/ ~HasUser(S.users, userId)
    THEN [st |-> S, err |-> ErrNotFound, id |-> 0]
    ELSE IF NotInRoom(S.rooms[roomId], userId)
    THEN [st |-> S, err |-> ErrNotInRoom, id |-> 0]
    ELSE IF VoiceDataTooLarge(len)
    THEN [st |-> S, err |-> ErrTooLarge, id |-> 0]
    ELSE
      LET messageId == Len(S.messages) + 1
          sequenceNumber == NextSequenceNumber(S.rooms[roomId])
          messages1 == Append(S.messages,
                          [sender |-> userId, roomId |-> roomId,
                           targetPDAIndex |-> targetPDAIndex,
                           sequenceNumber |-> sequenceNumber,
                           dataLength |-> len])
          rooms1 == [S.rooms EXCEPT ![roomId].messageCount = @ + 1]
          users1 == [S.users EXCEPT ![userId].messagesSent = @ + 1]
          storage1 == EnsureStoragePDA(S.storage, targetPDAIndex)
          storagePDA == storage1[targetPDAIndex]
      IN IF StoragePDAFull(storagePDA, len)
         THEN [st |-> State(users1, rooms1, messages1, storage1),
               err |-> ErrStorageFull, id |-> 0]
         ELSE [st |-> State(users1, rooms1, messages1,
                            [storage1 EXCEPT ![targetPDAIndex] =
                                                StoreInPDA(@, len, messageId)]),
               err |-> Ok, id |-> messageId]

\* mutant: no try/catch around the send, the first failure ends the loop
RECURSIVE BroadcastLoop_abort(_, _, _, _, _, _)
BroadcastLoop_abort(S, userId, roomId, len, targetPDAs, messageIds) ==
    IF targetPDAs = <<>>
    THEN [st |-> S, ids |-> messageIds]
    ELSE LET r == sendVoiceMessage(S, userId, roomId, len, Head(targetPDAs))
         IN IF r.err = Ok
            THEN BroadcastLoop_abort(r.st, userId, roomId, len, Tail(targetPDAs),
                                     Append(messageIds, r.id))
            ELSE [st |-> r.st, ids |-> messageIds]

\* mutant: unshift instead of push, the ids come back in reverse order
RECURSIVE BroadcastLoop_unshift(_, _, _, _, _, _)
BroadcastLoop_unshift(S, userId, roomId, len, targetPDAs, messageIds) ==
    IF targetPDAs = <<>>
    THEN [st |-> S, ids |-> messageIds]
    ELSE LET r == sendVoiceMessage(S, userId, roomId, len, Head(targetPDAs))
         IN BroadcastLoop_unshift(r.st, userId, roomId, len, Tail(targetPDAs),
                                  IF r.err = Ok THEN <<r.id>> \o messageIds
                                  ELSE messageIds)

\* mutant: a PDA named more than once in the list is written once
RECURSIVE BroadcastLoop_once(_, _, _, _, _, _)
BroadcastLoop_once(S, userId, roomId, len, targetPDAs, messageIds) ==
    IF targetPDAs = <<>>
    THEN [st |-> S, ids |-> messageIds]
    ELSE LET r == sendVoiceMessage(S, userId, roomId, len, Head(targetPDAs))
             others == SelectSeq(Tail(targetPDAs), LAMBDA x : x # Head(targetPDAs))
         IN BroadcastLoop_once(r.st, userId, roomId, len, others,
                               IF r.err = Ok THEN Append(messageIds, r.id)
                               ELSE messageIds)

\* the for loop of broadcastVoiceMessage: one send per target, a throw is
\* caught and logged, the id of a successful send is pushed to messageIds
RECURSIVE BroadcastLoop(_, _, _, _, _, _)
BroadcastLoop(S, userId, roomId, len, targetPDAs, messageIds) ==
    IF targetPDAs = <<>>
    THEN [st |-> S, ids |-> messageIds]
    ELSE LET r == sendVoiceMessage(S, userId, roomId, len, Head(targetPDAs))
         IN BroadcastLoop(r.st, userId, roomId, len, Tail(targetPDAs),
                          IF r.err = Ok THEN Append(messageIds, r.id) ELSE messageIds)

\* mutant: the latest message is returned, whatever id is asked for
getVoiceMessage_latest(S, messageId) ==
    IF messageId \notin 1..Len(S.messages)
    THEN [err |-> ErrMessageNotFound, id |-> 0]
    ELSE [err |-> Ok, id |-> Len(S.messages)]

\* getVoiceMessage as a function of the instance's state: the error thrown
\* (Ok if none) and the id of the entry of this.messages that is returned;
\* the method reads the names of the sender and of the room before it
\* returns
getVoiceMessage(S, messageId) ==
    IF messageId \notin 1..Len(S.messages)
    THEN [err |-> ErrMessageNotFound, id |-> 0]
    ELSE LET message == S.messages[messageId]
         IN IF ~HasUser(S.users, message.sender) \/ ~HasRoom(S.rooms, message.roomId)
            THEN [err |-> ErrTypeError, id |-> 0]
            ELSE [err |-> Ok, id |-> messageId]

\* no PDA account has been created
NoAccount == [size |-> 0, steps |-> 0]

\* no reallocatePDAToTargetSize has been called
NoRun ==
    [pc |-> "none", outcome |-> "none", err |-> Ok, targetSize |-> 0,
     currentIteration |-> 0, maxIterations |-> 0, currentSize |-> 0,
     startSize |-> 0, submitted |-> 0, caught |-> Ok, runs |-> 0]

\* a SmartContractCaller after its constructor: no program, no wallet, no
\* call made
NoCaller ==
    [pc |-> "idle", initialized |-> FALSE, publicKey |-> FALSE,
     promises |-> <<>>, settled |-> <<>>,
     ret |-> [success |-> FALSE, pdaCount |-> 0, pdas |-> <<>>,
              sampleDataAdded |-> FALSE],
     calls |-> 0]

\* nobody holds a room object
NoInfo == [ref |-> 0, participants |-> <<>>, isActive |-> FALSE, messageCount |-> 0]

\* no storage account was passed to sendVoiceData
NoSend == [attempted |-> FALSE, targetPdaIndex |-> 0, storagePda |-> 0, ok |-> FALSE]

\* callVoiceChatSystem has not been called
NoSystem ==
    [pc |-> "idle", i |-> 0, storagePDAs |-> <<>>, voiceRoom |-> FALSE,
     sent |-> NoSend, calls |-> 0]

\* the client helpers that derive the address of PDA index of an owner:
\* createPDAAccount of ReallocationExample, createSinglePDA and getAllPDAs of
\* SmartContractCaller, and callSmartContract of the test suite
Helpers == {"createPDAAccount", "createSinglePDA", "getAllPDAs", "callSmartContract"}

\* no helper has derived an address
NoDerivation == [owner |-> 0, index |-> 0, by |-> [h \in Helpers |-> <<>>]]

\* no script is running on the instance
NoScript ==
    [script |-> "none", pc |-> 0, outcome |-> "none", runs |-> 0,
     alice |-> 0, bob |-> 0, charlie |-> 0, roomId |-> 0,
     msg1 |-> 0, msg2 |-> 0, msg3 |-> 0,
     testUser |-> 0, testRoom |-> 0, i |-> 0, entry |-> <<>>]

----------------------------------------------------------------------------
(* Initial states *)

\* the state after the constructor
Constructed ==
    /\ users = <<>>
    /\ rooms = <<>>
    /\ messages = <<>>
    /\ storage = <<>>
    /\ last = Call("constructor", <<>>, Ok, <<>>)
    /\ demo = NoScript
    /\ ledger = NoAccount
    /\ run = NoRun
    /\ caller = NoCaller
    /\ info = NoInfo
    /\ system = NoSystem
    /\ derived = NoDerivation

\* the state after MaxUsers + Crowd calls of createUser, createRoom by user
\* MaxUsers + 1 and joinRoom by each of the users after it, in id order
Crowded ==
    /\ users = [i \in 1..(MaxUsers + Crowd) |->
                  IF i > MaxUsers THEN [joinedRooms |-> <<1>>, messagesSent |-> 0]
                  ELSE NewUser]
    /\ rooms = <<[host |-> MaxUsers + 1,
                  participants |-> [i \in 1..Crowd |-> MaxUsers + i],
                  isActive |-> TRUE, messageCount |-> 0]>>
    /\ messages = <<>>
    /\ storage = <<>>
    /\ last = Call("joinRoom", <<>>, Ok, <<>>)
    /\ demo = NoScript
    /\ ledger = NoAccount
    /\ run = NoRun
    /\ caller = NoCaller
    /\ info = NoInfo
    /\ system = NoSystem
    /\ derived = NoDerivation

Init == Constructed \/ Crowded

----------------------------------------------------------------------------
(* Actions: one per method *)

Install(S) ==
    /\ users' = S.users
    /\ rooms' = S.rooms
    /\ messages' = S.messages
    /\ storage' = S.storage

createUser ==
    /\ users' = Append(users, NewUser)
    /\ last' = Call("createUser", <<>>, Ok, <<Len(users) + 1>>)
    /\ UNCHANGED <<rooms, messages, storage>>

createRoom(hostUserId) ==
    /\ rooms' = Append(rooms, NewRoom(hostUserId))
    /\ IF HasUser(users, hostUserId)
       THEN /\ users' = [users EXCEPT ![hostUserId].joinedRooms = Append(@, Len(rooms) + 1)]
            /\ last' = Call("createRoom", <<>>, Ok, <<Len(rooms) + 1>>)
       ELSE /\ users' = users
            /\ last' = Call("createRoom", <<>>, ErrTypeError, <<>>)
    /\ UNCHANGED <<messages, storage>>

joinRoom(userId, roomId) ==
    /\ LET fail(e) == /\ last' = Call("joinRoom", <<>>, e, <<>>)
                      /\ UNCHANGED <<users, rooms>>
       IN IF ~HasRoom(rooms, roomId) THEN fail(ErrRoomNotFound)
          ELSE IF ~rooms[roomId].isActive THEN fail(ErrRoomNotActive)
          ELSE IF Includes(rooms[roomId].participants, userId) THEN fail(ErrAlreadyInRoom)
          ELSE IF RoomIsFull(rooms[roomId]) THEN fail(ErrRoomFull)
          ELSE /\ rooms' = [rooms EXCEPT ![roomId].participants = Append(@, userId)]
               /\ IF HasUser(users, userId)
                  THEN /\ users' = [users EXCEPT ![userId].joinedRooms = Append(@, roomId)]
                       /\ last' = Call("joinRoom", <<>>, Ok, <<>>)
                  ELSE /\ users' = users
                       /\ last' = Call("joinRoom", <<>>, ErrTypeError, <<>>)
    /\ UNCHANGED <<messages, storage>>

SendVoiceMessage(userId, roomId, len, targetPDAIndex) ==
    /\ LET r == sendVoiceMessage(Cur, userId, roomId, len, targetPDAIndex)
       IN /\ Install(r.st)
          /\ last' = Call("sendVoiceMessage", <<>>,
                          r.err, IF r.err = Ok THEN <<r.id>> ELSE <<>>)

broadcastVoiceMessage(userId, roomId, len, targetPDAs) ==
    /\ IF ~HasRoom(rooms, roomId) \/ ~HasUser(users, userId)
       THEN /\ last' = Call("broadcastVoiceMessage", targetPDAs,
                            ErrNotFound, <<>>)
            /\ UNCHANGED <<users, rooms, messages, storage>>
       ELSE IF TooManyTargetPDAs(targetPDAs)
       THEN /\ last' = Call("broadcastVoiceMessage", targetPDAs,
                            ErrTooManyTargets, <<>>)
            /\ UNCHANGED <<users, rooms, messages, storage>>
       ELSE LET r == BroadcastLoop(Cur, userId, roomId, len, targetPDAs, <<>>)
            IN /\ Install(r.st)
               /\ last' = Call("broadcastVoiceMessage", targetPDAs,
                               Ok, r.ids)

GetVoiceMessage(messageId) ==
    /\ LET r == getVoiceMessage(Cur, messageId)
       IN last' = Call("getVoiceMessage", <<>>,
                       r.err, IF r.err = Ok THEN <<r.id>> ELSE <<>>)
    /\ UNCHANGED <<users, rooms, messages, storage>>

leaveRoom(userId, roomId) ==
    /\ IF ~HasRoom(rooms, roomId) \/ ~HasUser(users, userId)
       THEN /\ last' = Call("leaveRoom", <<>>, ErrNotFound, <<>>)
            /\ UNCHANGED <<users, rooms>>
       ELSE LET participantIndex == IndexOf(rooms[roomId].participants, userId)
                userRoomIndex == IndexOf(users[userId].joinedRooms, roomId)
                left == [rooms[roomId] EXCEPT !.participants = Splice(@, participantIndex)]
            IN IF participantIndex = 0
               THEN /\ last' = Call("leaveRoom", <<>>, ErrNotInRoom, <<>>)
                    /\ UNCHANGED <<users, rooms>>
               ELSE /\ rooms' = [rooms EXCEPT ![roomId] =
                                   IF RoomIsEmpty(left)
                                   THEN [left EXCEPT !.isActive = FALSE]
                                   ELSE left]
                    /\ users' = IF userRoomIndex # 0
                                THEN [users EXCEPT ![userId].joinedRooms = Splice(@, userRoomIndex)]
                                ELSE users
                    /\ last' = Call("leaveRoom", <<>>, Ok, <<>>)
    /\ UNCHANGED <<messages, storage>>

----------------------------------------------------------------------------
(* Callers.  An id passed to a method is the unknown id 0 or an id that a  *)
(* create call has returned; ids are random strings, so no caller holds an *)
(* id before it is handed out.                                             *)

UserIds == {u \in Callers : u = UnknownId \/ HasUser(users, u)}

\* room ids passed by callers: the unknown id 0 and the ids handed out
RoomIds == 0..Len(rooms)

Membership ==
    \/ Len(users) < MaxUsers /\ createUser /\ UNCHANGED drivers
    \/ Len(rooms) < MaxRooms /\ \E u \in UserIds : createRoom(u) /\ UNCHANGED drivers
    \/ \E u \in UserIds, r \in RoomIds : joinRoom(u, r) /\ UNCHANGED drivers
    \/ \E u \in UserIds, r \in RoomIds : leaveRoom(u, r) /\ UNCHANGED drivers

Messaging(senders, lengths, indexes, lists) ==
    \/ \E u \in senders, r \in RoomIds, n \in lengths, i \in indexes :
          SendVoiceMessage(u, r, n, i) /\ UNCHANGED drivers
    \/ \E u \in senders, r \in RoomIds, n \in lengths, t \in lists :
          broadcastVoiceMessage(u, r, n, t) /\ UNCHANGED drivers

\* Spec follows the registry: every membership call in every order, and the
\* messaging calls up to the first one that stores a message
Next ==
    \/ Membership
    \/ messages = <<>> /\ Messaging(UserIds, {1024}, {0}, {<<0, 1>>})

Spec == Init /\ [][Next]_vars

\* SpecMessaging follows the messaging calls, from the state after createUser
\* twice, createRoom by user 1, joinRoom of user 2 and a second createRoom by
\* user 1: user 1 is in both rooms, user 2 in room 1 only
Staffed ==
    /\ users = <<[joinedRooms |-> <<1, 2>>, messagesSent |-> 0],
                 [joinedRooms |-> <<1>>, messagesSent |-> 0]>>
    /\ rooms = <<[host |-> 1, participants |-> <<1, 2>>,
                  isActive |-> TRUE, messageCount |-> 0],
                 [host |-> 1, participants |-> <<1>>,
                  isActive |-> TRUE, messageCount |-> 0]>>
    /\ messages = <<>>
    /\ storage = <<>>
    /\ last = Call("createRoom", <<>>, Ok, <<2>>)
    /\ demo = NoScript
    /\ ledger = NoAccount
    /\ run = NoRun
    /\ caller = NoCaller
    /\ info = NoInfo
    /\ system = NoSystem
    /\ derived = NoDerivation

\* every registered user and the unknown id send
Senders == 0..Len(users)

NextMessaging ==
    Len(messages) < MaxStored /\ Messaging(Senders, DataLengths, PDAIndexes, TargetLists)

SpecMessaging == Staffed /\ [][NextMessaging]_vars

\* SpecSession follows a session of two users from the state after
\* createUser twice and createRoom by user 1: they join, leave and rejoin the
\* room, send, and read messages back; the unknown id 0 is among the ids
\* they pass to sendVoiceMessage and getVoiceMessage
Hosted ==
    /\ users = <<[joinedRooms |-> <<1>>, messagesSent |-> 0], NewUser>>
    /\ rooms = <<NewRoom(1)>>
    /\ messages = <<>>
    /\ storage = <<>>
    /\ last = Call("createRoom", <<>>, Ok, <<1>>)
    /\ demo = NoScript
    /\ ledger = NoAccount
    /\ run = NoRun
    /\ caller = NoCaller
    /\ info = NoInfo
    /\ system = NoSystem
    /\ derived = NoDerivation

MessageIds == 0..Len(messages)

NextSession ==
    \/ \E u \in 1..Len(users), r \in 1..Len(rooms) : joinRoom(u, r) /\ UNCHANGED drivers
    \/ \E u \in 1..Len(users), r \in 1..Len(rooms) : leaveRoom(u, r) /\ UNCHANGED drivers
    \/ /\ Len(messages) < MaxStored
       /\ \E u \in Senders, r \in RoomIds, n \in DataLengths, i \in PDAIndexes :
             SendVoiceMessage(u, r, n, i) /\ UNCHANGED drivers
    \/ \E m \in MessageIds : GetVoiceMessage(m) /\ UNCHANGED drivers

SpecSession == Hosted /\ [][NextSession]_vars

----------------------------------------------------------------------------
(* Steps: the call that a step of the instance was.  A step is the call    *)
(* when it satisfies the call's action; the conjuncts before the action    *)
(* follow from it (StepGuardsFollow) and only spare the evaluation of the  *)
(* action for the calls that the step cannot be.                           *)

\* a call that persists a message persists one with its own arguments, and
\* a call that persists none was not one of a participant with a payload
\* of valid size
Persists(u, r, n) ==
    IF Len(messages') > Len(messages)
    THEN LET m == messages'[Len(messages) + 1]
         IN m.sender = u /\ m.roomId = r /\ m.dataLength = n
    ELSE ~(/\ HasRoom(rooms, r)
           /\ HasUser(users, u)
           /\ Includes(rooms[r].participants, u)
           /\ ~VoiceDataTooLarge(n))

JoinStep(u, r) == last'.op = "joinRoom" /\ joinRoom(u, r)

LeaveStep(u, r) == last'.op = "leaveRoom" /\ leaveRoom(u, r)

SendStep(u, r, n, i) ==
    /\ last'.op = "sendVoiceMessage"
    /\ Persists(u, r, n)
    /\ SendVoiceMessage(u, r, n, i)

BroadcastStep(u, r, n, t) ==
    /\ last'.op = "broadcastVoiceMessage"
    /\ last'.targetPDAs = t
    /\ Persists(u, r, n) \/ TooManyTargetPDAs(t)
    /\ broadcastVoiceMessage(u, r, n, t)

StepGuardsFollow ==
    [][/\ \A u \in Senders, r \in RoomIds :
            /\ joinRoom(u, r) => JoinStep(u, r)
            /\ leaveRoom(u, r) => LeaveStep(u, r)
       /\ \A u \in Senders, r \in RoomIds, n \in DataLengths, i \in PDAIndexes :
            SendVoiceMessage(u, r, n, i) => SendStep(u, r, n, i)
       /\ \A u \in Senders, r \in RoomIds, n \in DataLengths, t \in TargetLists :
            broadcastVoiceMessage(u, r, n, t) => BroadcastStep(u, r, n, t)]_vars

----------------------------------------------------------------------------
(* Storage PDAs and message sequencing *)

RECURSIVE SumDataLength(_, _)
SumDataLength(ms, ids) ==
    IF ids = <<>> THEN 0 ELSE ms[Head(ids)].dataLength + SumDataLength(ms, Tail(ids))

\* the ids of the messages that a send stored in its target PDA: the sends
\* that returned normally
Stored(m) ==
    /\ messages[m].targetPDAIndex \in DOMAIN storage
    /\ Includes(storage[messages[m].targetPDAIndex].messages, m)

\* C1: after any sequence and interleaving of sendVoiceMessage and
\* broadcastVoiceMessage calls, every storage PDA has used <= capacity =
\* 30720, and the sends that succeeded on one PDA never add up to more than
\* its capacity (no two sends whose combined size exceeds it both succeed).
C1_UsedWithinCapacity ==
    \A i \in DOMAIN storage :
        /\ storage[i].capacity = 30720
        /\ storage[i].used <= storage[i].capacity
        /\ SumDataLength(messages, storage[i].messages) <= storage[i].capacity
        /\ \A a, b \in 1..Len(storage[i].messages) :
              a # b => messages[storage[i].messages[a]].dataLength
                         + messages[storage[i].messages[b]].dataLength
                       <= storage[i].capacity

\* a send was rejected by a PDA that holds two accepted messages
C1_Witness ==
    /\ last.op = "sendVoiceMessage"
    /\ last.err = ErrStorageFull
    /\ \E i \in DOMAIN storage : Len(storage[i].messages) >= 2

\* C2: a sendVoiceMessage that fails because the target PDA is full leaves
\* every room's messageCount, every user's messagesSent, the message table
\* and every PDA as they were before the call.
C2_FullSendLeavesNoTrace ==
    [][(last'.op = "sendVoiceMessage" /\ last'.err = ErrStorageFull)
         => /\ \A r \in 1..Len(rooms) : rooms'[r].messageCount = rooms[r].messageCount
            /\ \A u \in 1..Len(users) : users'[u].messagesSent = users[u].messagesSent
            /\ messages' = messages
            /\ storage' = storage]_vars

\* the successful sends to room r, in send order
RECURSIVE StoredTo(_, _)
StoredTo(r, m) ==
    IF m = 0 THEN <<>>
    ELSE IF messages[m].roomId = r /\ Stored(m) THEN Append(StoredTo(r, m - 1), m)
    ELSE StoredTo(r, m - 1)

\* C3: for every room, the messages successfully sent to it carry the
\* sequence numbers 1, 2, 3, ... in send order, whatever sends to other
\* rooms, to other PDAs or rejected sends come in between.
C3_SequenceNumbersGapFree ==
    \A r \in 1..Len(rooms) :
        LET sent == StoredTo(r, Len(messages))
        IN \A k \in 1..Len(sent) : messages[sent[k]].sequenceNumber = k

----------------------------------------------------------------------------
(* Rooms and participants *)

\* C4: every room has at most 10 participants, and a joinRoom on a room
\* that has 10 participants fails and leaves the room's participants and the
\* user's joinedRooms unchanged; the error is "Room is full" for every user
\* who is not already in the room (the 11th participant).
C4_AtMostTenParticipants ==
    /\ [](\A r \in 1..Len(rooms) : Len(rooms[r].participants) <= 10)
    /\ [][\A u \in Senders, r \in 1..Len(rooms) :
            (JoinStep(u, r) /\ Len(rooms[r].participants) = 10)
            => /\ last'.err # Ok
               /\ ~Includes(rooms[r].participants, u) => last'.err = ErrRoomFull
               /\ rooms'[r].participants = rooms[r].participants
               /\ HasUser(users, u) => users'[u].joinedRooms = users[u].joinedRooms]_vars

\* a joinRoom was rejected by a room with 10 participants
C4_Witness ==
    /\ last.op = "joinRoom"
    /\ last.err = ErrRoomFull
    /\ \E r \in 1..Len(rooms) : Len(rooms[r].participants) = 10

\* C5: the leaveRoom of the last participant makes the room inactive; an
\* inactive room stays inactive, and every joinRoom on it, by any user,
\* fails with "Room is not active".
C5_LastLeaveDeactivates ==
    [][/\ \A u \in Senders, r \in 1..Len(rooms) :
            (LeaveStep(u, r) /\ last'.err = Ok /\ Len(rooms[r].participants) = 1)
            => ~rooms'[r].isActive
       /\ \A r \in 1..Len(rooms) : ~rooms[r].isActive => ~rooms'[r].isActive
       /\ \A u \in Senders, r \in 1..Len(rooms) :
            (JoinStep(u, r) /\ ~rooms[r].isActive)
            => /\ last'.err = ErrRoomNotActive
               /\ rooms' = rooms
               /\ users' = users]_vars

\* a joinRoom was rejected by a room that its last participant has left
C5_Witness ==
    /\ last.op = "joinRoom"
    /\ last.err = ErrRoomNotActive
    /\ \E r \in 1..Len(rooms) : ~rooms[r].isActive /\ rooms[r].participants = <<>>

\* C6: a room is inactive exactly when it has no participants; it never
\* becomes active again; every joinRoom and every sendVoiceMessage on it
\* fails and leaves its participants and messageCount unchanged, and the
\* send fails on the membership test, never with "Room is not active".
C6_InactiveIffEmpty ==
    /\ [](\A r \in 1..Len(rooms) :
            ~rooms[r].isActive <=> Len(rooms[r].participants) = 0)
    /\ [][/\ \A r \in 1..Len(rooms) : ~rooms[r].isActive => ~rooms'[r].isActive
          /\ \A u \in Senders, r \in 1..Len(rooms) :
               (JoinStep(u, r) /\ ~rooms[r].isActive)
               => /\ last'.err # Ok
                  /\ rooms'[r].participants = rooms[r].participants
                  /\ rooms'[r].messageCount = rooms[r].messageCount
          /\ \A u \in Senders, r \in 1..Len(rooms), n \in DataLengths, i \in PDAIndexes :
               (SendStep(u, r, n, i) /\ ~rooms[r].isActive)
               => /\ last'.err \in {ErrNotInRoom, ErrNotFound}
                  /\ rooms'[r].participants = rooms[r].participants
                  /\ rooms'[r].messageCount = rooms[r].messageCount]_vars

\* a sendVoiceMessage was rejected while every room is inactive
C6_Witness ==
    /\ last.op = "sendVoiceMessage"
    /\ last.err = ErrNotInRoom
    /\ rooms # <<>>
    /\ \A r \in 1..Len(rooms) : ~rooms[r].isActive

----------------------------------------------------------------------------
(* Capacity boundary and broadcast *)

\* the call passes the checks that sendVoiceMessage makes before it touches
\* the PDA: room and user exist, the user is in the room, the payload is
\* within the 29 KiB limit
Accepted(u, r, n) ==
    /\ HasRoom(rooms, r)
    /\ HasUser(users, u)
    /\ Includes(rooms[r].participants, u)
    /\ n <= 29696

UsedOf(st, i) == IF i \in DOMAIN st THEN st[i].used ELSE 0

\* C7: a send that brings a PDA's used bytes to exactly its capacity
\* succeeds; a send to a PDA whose length exceeds the remaining space
\* (capacity - used) fails and leaves used unchanged, with "Storage PDA
\* full" whenever the call reaches the capacity check.
C7_ExactFitThenFull ==
    [][last'.op = "sendVoiceMessage" =>
       \A u \in Senders, r \in RoomIds, n \in DataLengths, i \in DOMAIN storage :
          SendStep(u, r, n, i)
          => /\ (Accepted(u, r, n) /\ storage[i].used + n = storage[i].capacity)
                => /\ last'.err = Ok
                   /\ storage'[i].used = storage[i].capacity
             /\ (n > storage[i].capacity - storage[i].used)
                => /\ last'.err # Ok
                   /\ storage'[i].used = storage[i].used
                   /\ Accepted(u, r, n) => last'.err = ErrStorageFull]_vars

\* a send was rejected by the only PDA in use, which is filled to the byte
C7_Witness ==
    /\ last.op = "sendVoiceMessage"
    /\ last.err = ErrStorageFull
    /\ \E i \in PDAIndexes :
          /\ DOMAIN storage = {i}
          /\ storage[i].used = storage[i].capacity
          /\ Len(storage[i].messages) = 2

Count(targetPDAs, i) == Cardinality({k \in 1..Len(targetPDAs) : targetPDAs[k] = i})

Min(a, b) == IF a <= b THEN a ELSE b

\* C8: a broadcast does not fail and does not stop or roll back at a full
\* target: every PDA gains the payload length once for each time it is named
\* while the payload still fits, and a PDA in which it does not fit keeps its
\* used bytes.
C8_BroadcastIsolatesFailures ==
    [][last'.op = "broadcastVoiceMessage" =>
       LET t == last'.targetPDAs IN
       \A u \in Senders, r \in RoomIds, n \in DataLengths :
          (Accepted(u, r, n) /\ Len(t) <= 10 /\ BroadcastStep(u, r, n, t))
          => /\ last'.err = Ok
             /\ \A i \in PDAIndexes :
                   UsedOf(storage', i) =
                     UsedOf(storage, i)
                       + n * Min(Count(t, i), (30720 - UsedOf(storage, i)) \div n)]_vars

\* a broadcast to <<0, 1>> found PDA 0 full and stored its message in PDA 1
C8_Witness ==
    /\ last.op = "broadcastVoiceMessage"
    /\ last.err = Ok
    /\ last.targetPDAs = <<0, 1>>
    /\ Len(last.ret) = 1
    /\ 1 \in DOMAIN storage
    /\ storage[1].messages = last.ret
    /\ 0 \in DOMAIN storage
    /\ storage[0].used + messages[last.ret[1]].dataLength > storage[0].capacity

StoredIn(ms, st, m) ==
    /\ ms[m].targetPDAIndex \in DOMAIN st
    /\ Includes(st[ms[m].targetPDAIndex].messages, m)

C10_TooManyTargetsFailsFast ==
    [][last'.op = "broadcastVoiceMessage" =>
       LET t == last'.targetPDAs
           Found(u, r, n) ==
               HasRoom(rooms, r) /\ HasUser(users, u) /\ BroadcastStep(u, r, n, t)
       IN /\ Len(t) > 10
             => /\ last'.err # Ok
                /\ UNCHANGED <<users, rooms, messages, storage>>
                /\ \A u \in Senders, r \in RoomIds, n \in DataLengths :
                      Found(u, r, n) => last'.err = ErrTooManyTargets
          /\ Len(t) = 10
             => /\ last'.err # ErrTooManyTargets
                /\ \A u \in Senders, r \in RoomIds, n \in DataLengths :
                      Found(u, r, n) => last'.err = Ok]_vars

\* a broadcast naming 11 targets was rejected for its length
C10_Witness ==
    /\ last.op = "broadcastVoiceMessage"
    /\ last.err = ErrTooManyTargets
    /\ Len(last.targetPDAs) = 11

----------------------------------------------------------------------------
(* Rejections of sendVoiceMessage *)

\* the caller is registered, the room exists and the caller is in it
Member(u, r) ==
    /\ HasRoom(rooms, r)
    /\ HasUser(users, u)
    /\ Includes(rooms[r].participants, u)

\* C11: a sendVoiceMessage with a payload longer than 29696 bytes fails and
\* leaves users, rooms, messages and PDAs unchanged (no PDA is created), with
\* "Voice data too large" whenever the sender is a participant of the room; a
\* payload of exactly 29696 bytes is never rejected for its size.
C11_TooLargeRejectedUnchanged ==
    [][last'.op = "sendVoiceMessage" =>
       \A u \in Senders, r \in RoomIds, n \in DataLengths, i \in PDAIndexes :
          SendStep(u, r, n, i)
          => /\ n > 29696
                => /\ last'.err # Ok
                   /\ UNCHANGED <<users, rooms, messages, storage>>
                   /\ DOMAIN storage' = DOMAIN storage
                   /\ Member(u, r) => last'.err = ErrTooLarge
             /\ n = 29696
                => /\ last'.err # ErrTooLarge
                   /\ (Member(u, r) /\ UsedOf(storage, i) + n <= 30720)
                      => last'.err = Ok]_vars

\* a payload one byte over the limit was rejected for its size after a
\* payload of exactly the limit had been stored
C11_Witness ==
    /\ last.op = "sendVoiceMessage"
    /\ last.err = ErrTooLarge
    /\ \E m \in 1..Len(messages) : messages[m].dataLength = 29696 /\ Stored(m)

\* C12: a sendVoiceMessage by a user who is not in the room's participant
\* list (never joined, or joined and left) fails and leaves users, rooms,
\* messages and PDAs unchanged, whatever the payload length and the state of
\* the target PDA; the error is "User not in room" whenever the room exists
\* and the user is registered.
C12_NonParticipantRejected ==
    [][last'.op = "sendVoiceMessage" =>
       \A u \in Senders, r \in RoomIds, n \in DataLengths, i \in PDAIndexes :
          (/\ r \in 1..Len(rooms) => \A k \in 1..Len(rooms[r].participants) :
                                         rooms[r].participants[k] # u
           /\ SendStep(u, r, n, i))
          => /\ last'.err # Ok
             /\ UNCHANGED <<users, rooms, messages, storage>>
             /\ (HasRoom(rooms, r) /\ HasUser(users, u)) => last'.err = ErrNotInRoom]_vars

\* both users have left every room, a PDA is filled to the byte, and a send
\* was rejected because its sender is not in the room
C12_Witness ==
    /\ last.op = "sendVoiceMessage"
    /\ last.err = ErrNotInRoom
    /\ \A u \in 1..Len(users) : users[u].joinedRooms = <<>>
    /\ \A r \in 1..Len(rooms) : rooms[r].participants = <<>>
    /\ \E i \in DOMAIN storage : storage[i].used = storage[i].capacity

----------------------------------------------------------------------------
(* Registry calls with an id that is not registered *)

\* C13: a joinRoom with a user id that is not registered fails with a
\* not-found error and leaves the participant list of every room unchanged.
C13_UnknownJoinerRejected ==
    [][last'.op = "joinRoom" =>
       \A r \in RoomIds :
          JoinStep(UnknownId, r)
          => /\ last'.err \in {ErrRoomNotFound, ErrNotFound}
             /\ \A q \in 1..Len(rooms) :
                   rooms'[q].participants = rooms[q].participants]_vars

\* C14: a createRoom with a host id that is not registered fails with a
\* not-found error and adds no room.
C14_UnknownHostRejected ==
    [][(last'.op = "createRoom" /\ createRoom(UnknownId))
         => /\ last'.err \in {ErrRoomNotFound, ErrNotFound}
            /\ rooms' = rooms]_vars

----------------------------------------------------------------------------
(* Participant lists *)

NoDuplicates(arr) == \A a, b \in 1..Len(arr) : a # b => arr[a] # arr[b]

\* q keeps the entries of p that it still has in their order, and has its
\* new entries after them
KeepsOrder(p, q) ==
    \A a, b \in 1..Len(q) :
        (a < b /\ Includes(p, q[b]))
        => Includes(p, q[a]) /\ IndexOf(p, q[a]) < IndexOf(p, q[b])

----------------------------------------------------------------------------
(* Reading messages back *)

\* C16: the id returned by a successful sendVoiceMessage retrieves a record
\* with the sender, room, target PDA index and data length of that call and
\* the sequence number assigned by it; every later step, whatever call it
\* is, leaves the record retrieved by an id as it was; getVoiceMessage
\* succeeds for every id of the message table and fails with "Message not
\* found" for an unknown id.
C16_StoredMessageRetrievable ==
    [][/\ (last'.op = "sendVoiceMessage" /\ last'.err = Ok)
          => \A u \in Senders, r \in RoomIds, n \in DataLengths, i \in PDAIndexes :
                SendStep(u, r, n, i)
                => LET g == getVoiceMessage(Cur', last'.ret[1])
                   IN /\ g.err = Ok
                      /\ messages'[g.id] =
                            [sender |-> u, roomId |-> r, targetPDAIndex |-> i,
                             dataLength |-> n,
                             sequenceNumber |-> rooms[r].messageCount + 1]
       /\ \A m \in 1..Len(messages) :
             LET g == getVoiceMessage(Cur', m)
             IN g.err = Ok /\ messages'[g.id] = messages[m]
       /\ last'.op = "getVoiceMessage"
          => \A m \in MessageIds :
                GetVoiceMessage(m)
                => IF m \in 1..Len(messages)
                   THEN last'.err = Ok /\ last'.ret = <<m>>
                   ELSE last'.err = ErrMessageNotFound]_vars

\* the first message was read back after a later send had been stored and
\* after its sender had left the room, which is inactive by now
C16_Witness ==
    /\ last.op = "getVoiceMessage"
    /\ last.err = Ok
    /\ last.ret = <<1>>
    /\ \E m \in 2..Len(messages) : Stored(m)
    /\ Stored(1)
    /\ ~rooms[messages[1].roomId].isActive

----------------------------------------------------------------------------
(* The scripts of the class: runDemo and performanceTest.  Both are async  *)
(* functions without an await, so a script runs from its call to its end   *)
(* with no other call in between; demo.pc is the next call of the script.  *)
(* getRoomInfo and getStorageInfo only read and log and are not steps.     *)

\* scripts are started on one instance until this many have been started
MaxRuns == 3

\* mutant: every message of performanceTest goes to PDA 0
TargetOf_same(i) == 0

\* the target PDA of the i-th message of performanceTest
TargetOf(i) == i % 3

\* the bytes used in the PDAs 0, 1 and 2
Usage(st) == <<UsedOf(st, 0), UsedOf(st, 1), UsedOf(st, 2)>>

ChatUnchanged == UNCHANGED <<users, rooms, messages, storage, last>>

\* a call of runDemo or performanceTest on the instance, once the script
\* before it has returned or thrown; demo.entry records the PDA usage found
StartScript(name) ==
    /\ demo.outcome # "running"
    /\ demo.runs < MaxRuns
    /\ demo' = [NoScript EXCEPT !.script = name, !.pc = 1, !.outcome = "running",
                                !.runs = demo.runs + 1, !.entry = Usage(storage)]
    /\ ChatUnchanged

\* the call after the last one of runDemo
DemoEnd == 17

\* one call of runDemo; an error thrown by it ends the script in its catch
\* block, and runDemo returns normally
runDemo ==
    /\ demo.script = "runDemo"
    /\ demo.outcome = "running"
    /\ LET then(d) ==
             demo' = IF last'.err # Ok THEN [demo EXCEPT !.outcome = "failed"]
                     ELSE IF demo.pc + 1 = DemoEnd
                          THEN [d EXCEPT !.pc = DemoEnd, !.outcome = "done"]
                          ELSE [d EXCEPT !.pc = demo.pc + 1]
       IN CASE demo.pc = 1 -> createUser /\ then([demo EXCEPT !.alice = Len(users) + 1])
            [] demo.pc = 2 -> createUser /\ then([demo EXCEPT !.bob = Len(users) + 1])
            [] demo.pc = 3 -> createUser /\ then([demo EXCEPT !.charlie = Len(users) + 1])
            [] demo.pc = 4 -> createRoom(demo.alice)
                              /\ then([demo EXCEPT !.roomId = Len(rooms) + 1])
            [] demo.pc = 5 -> joinRoom(demo.bob, demo.roomId) /\ then(demo)
            [] demo.pc = 6 -> joinRoom(demo.charlie, demo.roomId) /\ then(demo)
            [] demo.pc = 7 -> SendVoiceMessage(demo.alice, demo.roomId, 5000, 0)
                              /\ then([demo EXCEPT !.msg1 = Len(messages) + 1])
            [] demo.pc = 8 -> SendVoiceMessage(demo.bob, demo.roomId, 8000, 1)
                              /\ then([demo EXCEPT !.msg2 = Len(messages) + 1])
            [] demo.pc = 9 -> SendVoiceMessage(demo.charlie, demo.roomId, 12000, 2)
                              /\ then([demo EXCEPT !.msg3 = Len(messages) + 1])
            [] demo.pc = 10 -> broadcastVoiceMessage(demo.alice, demo.roomId, 15000,
                                                     <<0, 1, 2>>)
                               /\ then(demo)
            [] demo.pc = 11 -> GetVoiceMessage(demo.msg1) /\ then(demo)
            [] demo.pc = 12 -> GetVoiceMessage(demo.msg2) /\ then(demo)
            [] demo.pc = 13 -> GetVoiceMessage(demo.msg3) /\ then(demo)
            [] demo.pc = 14 -> leaveRoom(demo.charlie, demo.roomId) /\ then(demo)
            [] demo.pc = 15 -> leaveRoom(demo.bob, demo.roomId) /\ then(demo)
            [] demo.pc = 16 -> leaveRoom(demo.alice, demo.roomId) /\ then(demo)

\* one call of performanceTest, which has no try/catch: an error thrown by a
\* call ends the script and rejects its promise
performanceTest ==
    /\ demo.script = "performanceTest"
    /\ demo.outcome = "running"
    /\ LET then(d) ==
             demo' = IF last'.err # Ok THEN [demo EXCEPT !.outcome = "thrown"] ELSE d
       IN CASE demo.pc = 1 -> createUser
                              /\ then([demo EXCEPT !.testUser = Len(users) + 1, !.pc = 2])
            [] demo.pc = 2 -> createRoom(demo.testUser)
                              /\ then([demo EXCEPT !.testRoom = Len(rooms) + 1, !.pc = 3])
            [] demo.pc = 3 ->
                 IF demo.i < 20
                 THEN /\ SendVoiceMessage(demo.testUser, demo.testRoom, 1000,
                                          TargetOf(demo.i))
                      /\ then([demo EXCEPT !.i = demo.i + 1])
                 ELSE /\ ChatUnchanged
                      /\ demo' = [demo EXCEPT !.outcome = "done"]

NextDemo ==
    \/ \E name \in {"runDemo", "performanceTest"} : StartScript(name) /\ UNCHANGED <<growth, handles>>
    \/ runDemo /\ UNCHANGED <<growth, handles>>
    \/ performanceTest /\ UNCHANGED <<growth, handles>>

\* SpecDemo follows the scripts on one instance, from the constructor: main
\* calls runDemo and then performanceTest; the class is exported, so the
\* scripts are also called in the other orders
SpecDemo == Constructed /\ [][NextDemo]_vars

\* a script that found the PDAs 0, 1 and 2 with these bytes used
Entered(name, usage) == demo.script = name /\ demo.entry = usage

\* C17: runDemo on a fresh instance never ends in its catch block; once
\* Bob and Charlie have joined, the room has 3 participants; after Alice's
\* send of 5000 bytes PDA 0 holds 5000 of 30720; the broadcast of 15000
\* bytes to <<0, 1, 2>> returns three ids and leaves PDA 0 at 20000; after
\* the three leaves the room is inactive with no participant.
C17_DemoScenario ==
    Entered("runDemo", <<0, 0, 0>>)
    => /\ demo.outcome # "failed"
       /\ demo.pc \in 7..14
          => /\ Len(rooms[demo.roomId].participants) = 3
             /\ rooms[demo.roomId].participants = <<demo.alice, demo.bob, demo.charlie>>
             /\ rooms[demo.roomId].isActive
       /\ demo.pc = 8
          => /\ last.op = "sendVoiceMessage" /\ last.err = Ok
             /\ storage[0].used = 5000 /\ storage[0].capacity = 30720
       /\ demo.pc = 11
          => /\ last.op = "broadcastVoiceMessage" /\ last.err = Ok
             /\ Len(last.ret) = 3
             /\ \A k \in 1..3 : messages[last.ret[k]].targetPDAIndex = k - 1
                                /\ Stored(last.ret[k])
             /\ storage[0].used = 20000
       /\ demo.pc = DemoEnd
          => /\ demo.outcome = "done"
             /\ ~rooms[demo.roomId].isActive
             /\ Len(rooms[demo.roomId].participants) = 0
             /\ Usage(storage) = <<20000, 23000, 27000>>

\* runDemo has returned on the instance it found fresh, its room is empty
C17_Witness ==
    /\ Entered("runDemo", <<0, 0, 0>>)
    /\ demo.outcome = "done"
    /\ last.op = "leaveRoom"
    /\ rooms[demo.roomId].participants = <<>>

\* the messages of performanceTest's user that a PDA accepted
Accepted1000 ==
    Cardinality({m \in 1..Len(messages) : messages[m].sender = demo.testUser /\ Stored(m)})

\* C18: performanceTest on the instance that runDemo left with 20000, 23000
\* and 27000 bytes used has its sends 0..10 accepted, the send with index 11,
\* to PDA 2, rejected as full, and attempts no further send: the script ends
\* with that error, never normally.
C18_PerformanceTestStopsAtTwelfth ==
    Entered("performanceTest", <<20000, 23000, 27000>>)
    => /\ demo.outcome # "done"
       /\ demo.i <= 11
       /\ demo.pc = 3 => Accepted1000 = demo.i
       /\ demo.outcome = "running" => last.err = Ok
       /\ demo.outcome = "thrown"
          => /\ demo.i = 11
             /\ last.op = "sendVoiceMessage"
             /\ last.err = ErrStorageFull
             /\ storage[2].used + 1000 > storage[2].capacity
             /\ Accepted1000 = 11
             /\ Usage(storage) = <<24000, 27000, 30000>>

\* performanceTest has thrown on the instance that runDemo left
C18_Witness ==
    /\ Entered("performanceTest", <<20000, 23000, 27000>>)
    /\ demo.outcome = "thrown"
    /\ Len(users) = 4
    /\ Len(rooms) = 2

----------------------------------------------------------------------------
(* ReallocationExample (src/unnamed/part_000): the client that grows one   *)
(* PDA account to a target size.  ledger is the account on chain: its data *)
(* length and the number of reallocatePdaAccount transactions submitted    *)
(* for it.  run is the position of reallocatePDAToTargetSize between its   *)
(* awaits; run.startSize and run.submitted record the size the run found   *)
(* and the transactions it submitted.                                      *)

InitialSize == 10240

ChunkSize == 10240

\* the largest size of an account: 1 MB
MaxSize == 1048576

ErrNoReallocNeeded == "NoReallocNeeded"

ErrTargetSizeTooLarge == "TargetSizeTooLarge"

\* a transaction that fails for another reason than the program's own errors
ErrTransaction == "failed to send transaction"

\* target sizes passed to reallocatePDAToTargetSize; the last two are the
\* target of demonstrateReallocation and one byte more
Targets == {5120, 10240, 10241, 20480, 30000, 35840, 1048576, 1048577}

\* Math.ceil(a / b) for b > 0
Ceil(a, b) == -((-a) \div b)

\* mutant: the loop of a hundred calls of the testing guide
MaxIterations_hundred(targetSize) == 100

\* mutant: the step count is rounded down
MaxIterations_floor(targetSize) == (targetSize - InitialSize) \div ChunkSize

MaxIterations(targetSize) == Ceil(targetSize - InitialSize, ChunkSize)

\* mutant: the catch block does not recognise NoReallocNeeded
IsNoReallocNeeded_never(message) == FALSE

\* mutant: the catch block takes every error for NoReallocNeeded
IsNoReallocNeeded_always(message) == TRUE

\* error.message.includes("NoReallocNeeded")
IsNoReallocNeeded(message) == message = ErrNoReallocNeeded

\* the program's reallocate_pda_account: a target above 1 MB is refused, an
\* account at or above the target is refused, another grows by up to one
\* chunk
reallocatePdaAccount(size, targetSize) ==
    IF targetSize > MaxSize
    THEN [err |-> ErrTargetSizeTooLarge, bytes |-> 0]
    ELSE IF size >= targetSize
    THEN [err |-> ErrNoReallocNeeded, bytes |-> 0]
    ELSE [err |-> Ok, bytes |-> Min(ChunkSize, targetSize - size)]

createPDAAccount ==
    /\ ledger = NoAccount
    /\ ledger' = [size |-> InitialSize, steps |-> 0]
    /\ UNCHANGED run

\* the call, up to the first await
reallocatePDAToTargetSize(targetSize) ==
    /\ ledger # NoAccount
    /\ run.outcome # "running"
    /\ run.runs < MaxRuns
    /\ run' = [NoRun EXCEPT !.pc = "plan", !.outcome = "running",
                            !.targetSize = targetSize, !.startSize = ledger.size,
                            !.runs = run.runs + 1]
    /\ UNCHANGED ledger

\* getReallocationStepsNeeded has returned (it swallows its errors); the
\* loop variables are set
Plan ==
    /\ run.outcome = "running" /\ run.pc = "plan"
    /\ run' = [run EXCEPT !.pc = "loop", !.currentIteration = 0,
                          !.maxIterations = MaxIterations(run.targetSize)]
    /\ UNCHANGED ledger

\* the test of the while loop
Loop ==
    /\ run.outcome = "running" /\ run.pc = "loop"
    /\ run' = [run EXCEPT !.pc = IF run.currentIteration < run.maxIterations
                                 THEN "submit" ELSE "final"]
    /\ UNCHANGED ledger

\* the reallocatePdaAccount transaction, to which the ledger answers with
\* reply, and, if it fails, the catch block
SubmitWith(reply) ==
    /\ run.outcome = "running" /\ run.pc = "submit"
    /\ ledger' = [size |-> ledger.size + reply.bytes, steps |-> ledger.steps + 1]
    /\ run' = IF reply.err = Ok
              THEN [run EXCEPT !.pc = "observe", !.submitted = @ + 1,
                               !.caught = Ok]
              ELSE IF IsNoReallocNeeded(reply.err)
              THEN [run EXCEPT !.pc = "final", !.submitted = @ + 1,
                               !.caught = reply.err]
              ELSE [run EXCEPT !.outcome = "thrown", !.err = reply.err,
                               !.submitted = @ + 1, !.caught = reply.err]

\* the transaction against the program as the guide documents it
Submit == SubmitWith(reallocatePdaAccount(ledger.size, run.targetSize))

\* getAccountInfo after the transaction
Observe ==
    /\ run.outcome = "running" /\ run.pc = "observe"
    /\ run' = [run EXCEPT !.pc = "check", !.currentSize = ledger.size]
    /\ UNCHANGED ledger

\* mutant: the iteration is not counted
Check_noIncrement ==
    /\ run.outcome = "running" /\ run.pc = "check"
    /\ run' = [run EXCEPT !.pc = IF run.currentSize >= run.targetSize
                                 THEN "final" ELSE "loop"]
    /\ UNCHANGED ledger

\* the test of the observed size, the increment and the delay
Check ==
    /\ run.outcome = "running" /\ run.pc = "check"
    /\ run' = IF run.currentSize >= run.targetSize
              THEN [run EXCEPT !.pc = "final"]
              ELSE [run EXCEPT !.pc = "loop", !.currentIteration = @ + 1]
    /\ UNCHANGED ledger

\* the final size check; the call returns
Final ==
    /\ run.outcome = "running" /\ run.pc = "final"
    /\ run' = [run EXCEPT !.outcome = "done", !.currentSize = ledger.size]
    /\ UNCHANGED ledger

ChatIdle == UNCHANGED <<users, rooms, messages, storage, last, demo, handles>>

NextGrowth ==
    \/ createPDAAccount /\ ChatIdle
    \/ \E t \in Targets : reallocatePDAToTargetSize(t) /\ ChatIdle
    \/ Plan /\ ChatIdle
    \/ Loop /\ ChatIdle
    \/ Submit /\ ChatIdle
    \/ Observe /\ ChatIdle
    \/ Check /\ ChatIdle
    \/ Final /\ ChatIdle

\* SpecGrowth follows one account from its creation through up to MaxRuns
\* calls of reallocatePDAToTargetSize, one after the other
SpecGrowth == Constructed /\ [][NextGrowth]_vars

\* C19: a run that finds the account at 10240 bytes, with a target above
\* that and of at most 1 MB, and a ledger that grants
\* min(10240, target - size) per step, never throws and never submits more than ceil((target - 10240) / 10240) steps;
\* it observes a size of at least the target only after exactly that many
\* steps (3 for 35840) and returns with that count; once it has observed
\* size >= target it submits nothing more.
C19_StepsToTarget ==
    /\ []((/\ run.pc # "none" /\ run.startSize = 10240
            /\ run.targetSize > 10240 /\ run.targetSize <= MaxSize)
          => LET n == Ceil(run.targetSize - 10240, 10240)
             IN /\ run.outcome # "thrown"
                /\ run.submitted <= n
                /\ run.currentSize >= run.targetSize => run.submitted = n
                /\ run.outcome = "done"
                   => /\ run.submitted = n
                      /\ run.currentSize >= run.targetSize
                      /\ ledger.size = run.currentSize
                /\ (run.outcome = "done" /\ run.targetSize = 35 * 1024)
                   => run.submitted = 3)
    /\ [][(/\ run.pc # "none"
           /\ run'.runs = run.runs
           /\ run.startSize = 10240
           /\ run.currentSize >= run.targetSize)
          => (run'.submitted = run.submitted /\ ledger' = ledger)]_vars

\* a run from 10240 to 35 KiB has returned after three steps
C19_Witness ==
    /\ run.outcome = "done"
    /\ run.startSize = 10240
    /\ run.targetSize = 35840
    /\ run.submitted = 3
    /\ ledger.size = 35840

----------------------------------------------------------------------------
(* ReallocationExample against a ledger that answers as it likes *)

\* the sizes at which a run finds the account: the 1 KB of the accounts that
\* createAllPdas makes in tests/voicechat.ts, the 10 KB of createPdaAccount,
\* and an account that was grown before
StartSizes == {1024, 10240, 20480}

\* the targets of the runs against this ledger
SmallTargets == {t \in Targets : t <= 35840}

\* what one reallocatePdaAccount transaction can do to an account of this
\* size: what the guide documents, half a chunk, nothing at all, a refusal
\* with NoReallocNeeded, or a failure of the transaction
Replies(size, targetSize) ==
    { reallocatePdaAccount(size, targetSize),
      [err |-> Ok, bytes |-> ChunkSize \div 2],
      [err |-> Ok, bytes |-> 0],
      [err |-> ErrNoReallocNeeded, bytes |-> 0],
      [err |-> ErrTransaction, bytes |-> 0] }

SubmitAny == \E reply \in Replies(ledger.size, run.targetSize) : SubmitWith(reply)

\* an account of some size exists; no call has been made
Deployed ==
    /\ users = <<>>
    /\ rooms = <<>>
    /\ messages = <<>>
    /\ storage = <<>>
    /\ last = Call("constructor", <<>>, Ok, <<>>)
    /\ demo = NoScript
    /\ ledger \in {[size |-> s, steps |-> 0] : s \in StartSizes}
    /\ run = NoRun
    /\ caller = NoCaller
    /\ info = NoInfo
    /\ system = NoSystem
    /\ derived = NoDerivation

\* one step of the call in progress
RunStep ==
    \/ Plan /\ ChatIdle
    \/ Loop /\ ChatIdle
    \/ SubmitAny /\ ChatIdle
    \/ Observe /\ ChatIdle
    \/ Check /\ ChatIdle
    \/ Final /\ ChatIdle

NextLedger ==
    \/ \E t \in SmallTargets : reallocatePDAToTargetSize(t) /\ ChatIdle
    \/ RunStep

\* SpecLedger follows up to MaxRuns calls of reallocatePDAToTargetSize on one
\* account whose ledger is free in each answer
SpecLedger == Deployed /\ [][NextLedger]_vars

\* every await of the call in progress is answered
SpecLedgerFair == SpecLedger /\ WF_vars(RunStep)

\* the steps an account of size s needs to reach the target
StepsNeeded(s, targetSize) == Ceil(targetSize - s, ChunkSize)

\* C21: once the loop variables are set, the bound of the run is the number
\* of steps that the size found at the start of the run needs, plus at most
\* one.
C21_BoundFromObservedSize ==
    run.pc \notin {"none", "plan"}
    => /\ run.maxIterations >= StepsNeeded(run.startSize, run.targetSize)
       /\ run.maxIterations <= StepsNeeded(run.startSize, run.targetSize) + 1

\* C22: against a ledger that is free in each answer, a run never submits
\* more steps than the bound it computed from its target before the loop,
\* and every run that has started ends: it returns or it throws.
C22_RunTerminatesWithinBound ==
    /\ [](run.pc \notin {"none", "plan"}
          => /\ run.maxIterations = MaxIterations(run.targetSize)
             /\ run.currentIteration <= run.submitted
             /\ run.submitted <= IF run.maxIterations > 0
                                 THEN run.maxIterations ELSE 0)
    /\ (run.outcome = "running") ~> (run.outcome \in {"done", "thrown"})

\* a run has returned after as many steps as its bound allows, none of
\* which grew the account
C22_Witness ==
    /\ run.outcome = "done"
    /\ run.maxIterations = 3
    /\ run.submitted = 3
    /\ ledger.size = run.startSize

\* C23: a run that has submitted as many steps as its bound allows, none of
\* them refused, and ends while the account is below the target ends with a
\* GrowthIncomplete failure; it does not return normally.
C23_ExhaustedBoundFails ==
    (/\ run.outcome \in {"done", "thrown"}
     /\ run.maxIterations > 0
     /\ run.submitted = run.maxIterations
     /\ run.caught = Ok
     /\ ledger.size < run.targetSize)
    => /\ run.outcome = "thrown"
       /\ run.err = "GrowthIncomplete"

C25_OtherErrorSurfaced ==
    /\ [](run.caught \notin {Ok, ErrNoReallocNeeded}
          => /\ run.outcome = "thrown"
             /\ run.err = run.caught)
    /\ [][(run.caught \notin {Ok, ErrNoReallocNeeded} /\ run'.runs = run.runs)
          => /\ run' = run
             /\ ledger' = ledger]_vars

\* a run has thrown the failure of its second transaction
C25_Witness ==
    /\ run.outcome = "thrown"
    /\ run.err = ErrTransaction
    /\ run.submitted = 2
    /\ run.currentIteration = 1

----------------------------------------------------------------------------
(* The 1 MB limit, against the program as the guide documents it *)

\* C26: a run whose target is above 1 MB submits no growth step, leaves the
\* size of the account unchanged and ends with a target-too-large failure.
C26_TooLargeFailsBeforeAnyStep ==
    (run.pc # "none" /\ run.targetSize > MaxSize)
    => /\ run.submitted = 0
       /\ ledger.size = run.startSize
       /\ run.outcome \in {"done", "thrown"}
          => /\ run.outcome = "thrown"
             /\ run.err = ErrTargetSizeTooLarge

----------------------------------------------------------------------------
(* SmartContractCaller (src/unnamed/part_001) *)

\* the PDAs that one call of callSmartContract creates; the code creates 10
NumPDAs == 3

PDAIndices == 0..(NumPDAs - 1)

\* the promise of createSinglePDA(index, authority) when the call returns
\* it: the createAllPdas transaction is in flight
Pending(index) == [pc |-> "rpc", index |-> index, transaction |-> "none"]

\* one await of createSinglePDA is answered, with a value (ok) or with an
\* error: a createAllPdas that succeeds is followed by a fetch of the
\* account; an error of either leads to the catch block, whose fetch decides
\* between the value of an existing PDA and the rejection
createSinglePDAStep(promise, ok) ==
    CASE promise.pc = "rpc" ->
             IF ok THEN [promise EXCEPT !.pc = "verify", !.transaction = "tx"]
             ELSE [promise EXCEPT !.pc = "refetch"]
      [] promise.pc = "verify" ->
             IF ok THEN [promise EXCEPT !.pc = "fulfilled"]
             ELSE [promise EXCEPT !.pc = "refetch"]
      [] promise.pc = "refetch" ->
             IF ok THEN [promise EXCEPT !.pc = "fulfilled", !.transaction = "existing"]
             ELSE [promise EXCEPT !.pc = "rejected", !.transaction = "none"]

IsSettled(promise) == promise.pc \in {"fulfilled", "rejected"}

\* mutant: the results come in the order in which the promises settled
allSettled_byCompletion(promises, settled) ==
    [k \in 1..Len(promises) |-> promises[settled[k] + 1]]

\* Promise.allSettled: the results in the order of the promises passed
allSettled(promises, settled) ==
    [k \in 1..Len(promises) |-> promises[k]]

\* the object that createSinglePDA returns
Value(promise) == [index |-> promise.index, transaction |-> promise.transaction]

\* results.forEach: the values of the fulfilled results, in the order of
\* results
RECURSIVE forEach(_)
forEach(results) ==
    IF results = <<>> THEN <<>>
    ELSE IF Head(results).pc = "fulfilled"
    THEN <<Value(Head(results))>> \o forEach(Tail(results))
    ELSE forEach(Tail(results))

\* initialize(wallet) with a wallet that has a public key or has none
initialize(publicKey) ==
    /\ caller.pc = "idle"
    /\ ~caller.initialized
    /\ caller' = [caller EXCEPT !.initialized = TRUE, !.publicKey = publicKey]

\* the call, up to await Promise.allSettled: every createSinglePDA has run
\* up to its first await.  Without program or wallet the call throws; an
\* error inside the try block (the wallet has no public key to print) is
\* caught and reported as success: false
callSmartContract ==
    /\ caller.pc \in {"idle", "returned", "thrown"}
    /\ caller.calls < MaxRuns
    /\ caller' =
         IF ~caller.initialized
         THEN [caller EXCEPT !.pc = "thrown", !.calls = @ + 1,
                             !.promises = <<>>, !.settled = <<>>,
                             !.ret = NoCaller.ret]
         ELSE IF ~caller.publicKey
         THEN [caller EXCEPT !.pc = "returned", !.calls = @ + 1,
                             !.promises = <<>>, !.settled = <<>>,
                             !.ret = NoCaller.ret]
         ELSE [caller EXCEPT !.pc = "awaiting", !.calls = @ + 1,
                             !.promises = [k \in 1..NumPDAs |-> Pending(k - 1)],
                             !.settled = <<>>,
                             !.ret = NoCaller.ret]

\* the ledger answers the await of the creation of PDA index
createSinglePDA(index, ok) ==
    /\ caller.pc = "awaiting"
    /\ ~IsSettled(caller.promises[index + 1])
    /\ LET promise == createSinglePDAStep(caller.promises[index + 1], ok)
       IN caller' = [caller EXCEPT
                       !.promises[index + 1] = promise,
                       !.settled = IF IsSettled(promise) THEN Append(@, index) ELSE @]

\* every promise has settled: the rest of the call, with the update of the
\* first PDA, whose failure is only logged
callSmartContractReturns(ok) ==
    /\ caller.pc = "awaiting"
    /\ \A k \in 1..NumPDAs : IsSettled(caller.promises[k])
    /\ LET createdPDAs == forEach(allSettled(caller.promises, caller.settled))
       IN /\ ok => Len(createdPDAs) > 0
          /\ caller' = [caller EXCEPT
                          !.pc = "returned",
                          !.ret = [success |-> TRUE,
                                   pdaCount |-> Len(createdPDAs),
                                   pdas |-> createdPDAs,
                                   sampleDataAdded |-> ok]]

CallerOnly ==
    UNCHANGED <<users, rooms, messages, storage, last, demo, ledger, run, info,
                system, derived>>

NextCaller ==
    \/ \E publicKey \in BOOLEAN : initialize(publicKey) /\ CallerOnly
    \/ callSmartContract /\ CallerOnly
    \/ \E index \in PDAIndices, ok \in BOOLEAN :
          createSinglePDA(index, ok) /\ CallerOnly
    \/ \E ok \in BOOLEAN : callSmartContractReturns(ok) /\ CallerOnly

\* SpecCaller follows one SmartContractCaller through up to MaxRuns button
\* clicks, one after the other; the ledger is free in each answer
SpecCaller == Constructed /\ [][NextCaller]_vars

\* C28: a call that has returned success: true has at least one PDA in its
\* result.
C28_SuccessHasPDA ==
    (caller.pc = "returned" /\ caller.ret.success) => caller.ret.pdaCount > 0

\* C30: all creations are in flight before the first one settles; whatever
\* the order in which they settle, the call returns the PDAs in ascending
\* index order, one for each creation that was fulfilled and none for one
\* that was rejected, and pdaCount is their number.
C30_PDAsInIndexOrder ==
    /\ (caller.pc = "awaiting" /\ caller.settled = <<>>)
       => \A k \in 1..NumPDAs : ~IsSettled(caller.promises[k])
    /\ (caller.pc = "returned" /\ caller.ret.success)
       => LET pdas == caller.ret.pdas
          IN /\ \A a, b \in 1..Len(pdas) : a < b => pdas[a].index < pdas[b].index
             /\ \A i \in PDAIndices :
                   caller.promises[i + 1].pc = "fulfilled"
                   <=> \E a \in 1..Len(pdas) : pdas[a] = Value(caller.promises[i + 1])
             /\ \A a \in 1..Len(pdas) : pdas[a].index \in PDAIndices
             /\ caller.ret.pdaCount = Len(pdas)

\* a call has returned after its creations settled from the last index to
\* the first and one of them, not the last, was rejected
C30_Witness ==
    /\ caller.pc = "returned"
    /\ caller.ret.success
    /\ caller.settled[1] = NumPDAs - 1
    /\ caller.settled[NumPDAs] = 0
    /\ caller.promises[2].pc = "rejected"
    /\ caller.ret.pdaCount = NumPDAs - 1
    /\ caller.ret.pdas[1].index = 0

----------------------------------------------------------------------------
(* getRoomInfo and the object it returns *)

\* what a room object shows to whoever holds it
RoomView(room) ==
    [participants |-> room.participants, isActive |-> room.isActive,
     messageCount |-> room.messageCount]

\* getRoomInfo returns the entry of this.rooms itself: info.ref is that
\* object, the other fields of info are what it showed when it was returned
getRoomInfo(roomId) ==
    /\ IF ~HasRoom(rooms, roomId)
       THEN /\ last' = Call("getRoomInfo", <<>>, ErrRoomNotFound, <<>>)
            /\ UNCHANGED info
       ELSE /\ last' = Call("getRoomInfo", <<>>, Ok, <<roomId>>)
            /\ info' = [ref |-> roomId,
                        participants |-> RoomView(rooms[roomId]).participants,
                        isActive |-> RoomView(rooms[roomId]).isActive,
                        messageCount |-> RoomView(rooms[roomId]).messageCount]
    /\ UNCHANGED <<users, rooms, messages, storage>>

\* what the object returned by the last successful getRoomInfo shows now
Held == RoomView(rooms[info.ref])

NextInfo ==
    \/ \E u \in 1..Len(users), r \in 1..Len(rooms) : joinRoom(u, r) /\ UNCHANGED drivers
    \/ \E u \in 1..Len(users), r \in 1..Len(rooms) : leaveRoom(u, r) /\ UNCHANGED drivers
    \/ /\ Len(messages) < MaxStored
       /\ \E u \in 1..Len(users), r \in 1..Len(rooms) :
             SendVoiceMessage(u, r, 1024, 0) /\ UNCHANGED drivers
    \/ \E r \in RoomIds : getRoomInfo(r) /\ UNCHANGED <<demo, ledger, run, caller, system, derived>>

\* SpecInfo follows the session of SpecSession with a caller who asks for
\* the room's info between the other calls and keeps what was returned
SpecInfo == Hosted /\ [][NextInfo]_vars

\* C29: getRoomInfo changes nothing in the instance, and what it returned
\* keeps showing the participants, the active flag and the message count of
\* the time of the call.
C29_RoomInfoIsSnapshot ==
    /\ [][last'.op = "getRoomInfo"
          => UNCHANGED <<users, rooms, messages, storage>>]_vars
    /\ [](info.ref # 0
          => /\ Held.participants = info.participants
             /\ Held.isActive = info.isActive
             /\ Held.messageCount = info.messageCount)

----------------------------------------------------------------------------
(* The storage Map across calls *)

\* p is the beginning of q
IsPrefix(p, q) == Len(p) <= Len(q) /\ SubSeq(q, 1, Len(p)) = p

\* C31: a PDA exists exactly when a send that named its index got as far as
\* storing its message, and it has its own index and a capacity of 30720.  A
\* call never removes a PDA, changes its capacity, lowers its used bytes or
\* drops or reorders the messages it lists; the PDA that a call creates
\* lists only messages of that call and counts only their bytes.
C31_PDACreatedOnceAndKept ==
    /\ [](/\ \A i \in DOMAIN storage :
               /\ storage[i].index = i
               /\ storage[i].capacity = 30720
          /\ \A i \in PDAIndexes :
               i \in DOMAIN storage
               <=> \E m \in 1..Len(messages) : messages[m].targetPDAIndex = i)
    /\ [][/\ \A i \in DOMAIN storage :
               /\ i \in DOMAIN storage'
               /\ storage'[i].capacity = storage[i].capacity
               /\ storage'[i].used >= storage[i].used
               /\ IsPrefix(storage[i].messages, storage'[i].messages)
          /\ \A i \in DOMAIN storage' \ DOMAIN storage :
               /\ \A k \in 1..Len(storage'[i].messages) :
                     storage'[i].messages[k] > Len(messages)
               /\ storage'[i].used = SumDataLength(messages', storage'[i].messages)]_vars

\* the latest send was stored as the second message of a PDA that an
\* earlier call created, while another PDA exists
C31_Witness ==
    /\ last.op = "sendVoiceMessage"
    /\ last.err = Ok
    /\ DOMAIN storage = {0, 1}
    /\ \E i \in DOMAIN storage :
          /\ Len(storage[i].messages) = 2
          /\ storage[i].messages[2] = last.ret[1]
          /\ storage[i].used = 2048


----------------------------------------------------------------------------
(* The counters and the message table *)

\* the ids of the entries of this.messages that were sent to room r
MessagesOfRoom(r) == {m \in 1..Len(messages) : messages[m].roomId = r}

\* the ids of the entries of this.messages that were sent by user u
MessagesOfSender(u) == {m \in 1..Len(messages) : messages[m].sender = u}

\* C34: in every reachable state, a room's messageCount is the number of
\* entries of the message table that carry its roomId, the sequence numbers
\* of those entries are exactly 1..messageCount, each carried once, and a
\* user's messagesSent is the number of entries that carry the user's id as
\* sender.
C34_CountersMatchTable ==
    /\ \A r \in 1..Len(rooms) :
          /\ rooms[r].messageCount = Cardinality(MessagesOfRoom(r))
          /\ {messages[m].sequenceNumber : m \in MessagesOfRoom(r)}
                = 1..rooms[r].messageCount
          /\ \A a, b \in MessagesOfRoom(r) :
                a # b => messages[a].sequenceNumber # messages[b].sequenceNumber
    /\ \A u \in 1..Len(users) :
          users[u].messagesSent = Cardinality(MessagesOfSender(u))

\* three entries in the table: two for room 1, by different senders, and
\* one for room 2
C34_Witness ==
    /\ Len(messages) = 3
    /\ rooms[1].messageCount = 2
    /\ rooms[2].messageCount = 1
    /\ users[1].messagesSent = 2
    /\ users[2].messagesSent = 1
    /\ messages[3].roomId = 1
    /\ messages[3].sequenceNumber = 2


\* C35: in every reachable state, the used bytes of every storage PDA are
\* the sum of the data lengths of the messages in its list, and every id in
\* its list is the id of an entry of the message table whose targetPDAIndex
\* is the PDA's own index.
C35_UsedIsSumOfListed ==
    \A i \in DOMAIN storage :
        /\ \A k \in 1..Len(storage[i].messages) :
              /\ storage[i].messages[k] \in 1..Len(messages)
              /\ messages[storage[i].messages[k]].targetPDAIndex = storage[i].index
        /\ storage[i].used = SumDataLength(messages, storage[i].messages)

\* a PDA filled to its capacity by two messages of different lengths, and a
\* third entry of the table aimed at it that it does not list
C35_Witness ==
    /\ 1 \in DOMAIN storage
    /\ Len(storage[1].messages) = 2
    /\ storage[1].used = 30720
    /\ Len(messages) = 3
    /\ messages[3].targetPDAIndex = 1
    /\ ~Includes(storage[1].messages, 3)


----------------------------------------------------------------------------
(* What a send and a broadcast leave alone *)

\* PDA i is the same before and after the step: absent in both, or present
\* in both with the same fields
SamePDA(i) ==
    /\ i \in DOMAIN storage' <=> i \in DOMAIN storage
    /\ i \in DOMAIN storage => storage'[i] = storage[i]

\* the ids of the entries that the step added to the message table for PDA i
NewMessagesFor(i) ==
    {m \in (Len(messages) + 1)..Len(messages') : messages'[m].targetPDAIndex = i}

ListedOf(st, i) == IF i \in DOMAIN st THEN Len(st[i].messages) ELSE 0

\* C36: a sendVoiceMessage to PDA i for room r leaves every PDA other than
\* i, every room other than r and every user other than the sender as they
\* were.  A broadcastVoiceMessage leaves every PDA that its target list does
\* not name as it was, and a PDA named k times in the list is written once
\* per occurrence, each on its own: the call makes k entries in the message
\* table for it, and the PDA lists as many of them as fit one after the
\* other.  A call that adds nothing to the message table (it failed a check
\* made before the table is written) changes nothing at all.
C36_WritesOnlyWhatIsNamed ==
    /\ [][last'.op = "sendVoiceMessage" =>
          IF messages' = messages
          THEN users' = users /\ rooms' = rooms /\ storage' = storage
          ELSE \A u \in Senders, r \in RoomIds, n \in DataLengths, i \in PDAIndexes :
                  SendStep(u, r, n, i)
                  => /\ \A j \in PDAIndexes \ {i} : SamePDA(j)
                     /\ Len(rooms') = Len(rooms)
                     /\ \A q \in 1..Len(rooms) : q # r => rooms'[q] = rooms[q]
                     /\ Len(users') = Len(users)
                     /\ \A v \in 1..Len(users) : v # u => users'[v] = users[v]]_vars
    /\ [][last'.op = "broadcastVoiceMessage" =>
          LET t == last'.targetPDAs IN
          IF messages' = messages
          THEN storage' = storage
          ELSE \A u \in Senders, r \in RoomIds, n \in DataLengths :
                  (Accepted(u, r, n) /\ BroadcastStep(u, r, n, t))
                  => /\ \A j \in PDAIndexes : Count(t, j) = 0 => SamePDA(j)
                     /\ \A j \in PDAIndexes :
                          /\ Cardinality(NewMessagesFor(j)) = Count(t, j)
                          /\ ListedOf(storage', j) =
                               ListedOf(storage, j)
                                 + Min(Count(t, j),
                                       (30720 - UsedOf(storage, j)) \div n)]_vars

\* a broadcast to <<1, 0, 1>> wrote PDA 1 twice and PDA 0 once, all three
\* accepted, in a state where PDA 1 held a message before
C36_Witness ==
    /\ last.op = "broadcastVoiceMessage"
    /\ last.targetPDAs = <<1, 0, 1>>
    /\ Len(last.ret) = 3
    /\ DOMAIN storage = {0, 1}
    /\ Len(storage[1].messages) = 3
    /\ Len(storage[0].messages) = 1


----------------------------------------------------------------------------
(* The two sides of membership *)

\* C32: in every state reached through createRoom, joinRoom and leaveRoom, a
\* user id is in a room's participants exactly when the room's id is in that
\* user's joinedRooms, and neither list holds an entry twice.
C32_MembershipListsAgree ==
    /\ \A r \in 1..Len(rooms) :
          /\ NoDuplicates(rooms[r].participants)
          /\ \A k \in 1..Len(rooms[r].participants) :
                LET u == rooms[r].participants[k]
                IN HasUser(users, u) /\ Includes(users[u].joinedRooms, r)
    /\ \A u \in 1..Len(users) :
          /\ NoDuplicates(users[u].joinedRooms)
          /\ \A k \in 1..Len(users[u].joinedRooms) :
                LET r == users[u].joinedRooms[k]
                IN HasRoom(rooms, r) /\ Includes(rooms[r].participants, u)


----------------------------------------------------------------------------
(* Create or fetch *)

\* the creation of PDA index is rejected in this step
Rejects(index) ==
    /\ caller.pc = "awaiting"
    /\ caller'.pc = "awaiting"
    /\ caller.promises[index + 1].pc # "rejected"
    /\ caller'.promises[index + 1].pc = "rejected"

\* the createAllPdas transaction of PDA index has succeeded: the promise
\* holds its signature
CreateSucceeded(index) == caller.promises[index + 1].transaction = "tx"

\* C33: create-or-fetch is idempotent.  A callSmartContract made when every
\* PDA exists already (each createAllPdas is refused, each fetch finds the
\* account) returns every index, in order, each with transaction
\* "existing"; and createSinglePDA fails only when both the create and the
\* fetch of the existing account fail, so never after its createAllPdas
\* has succeeded.
C33_CreateOrFetch ==
    /\ []((/\ caller.pc = "returned"
           /\ caller.ret.success
           /\ \A k \in 1..NumPDAs :
                 /\ caller.promises[k].pc = "fulfilled"
                 /\ caller.promises[k].transaction = "existing")
          => caller.ret.pdas =
               [k \in 1..NumPDAs |-> [index |-> k - 1, transaction |-> "existing"]])
    /\ [][\A index \in PDAIndices :
             Rejects(index) => ~CreateSucceeded(index)]_vars


----------------------------------------------------------------------------
(* callVoiceChatSystem (src/tests/voice_chat_system.ts) *)

\* const targetPdaIndex = 0
TargetPdaIndex == 0

\* one turn of the loop over the storage PDAs: what is pushed to
\* results.storagePDAs.  The createAllStoragePdas transaction and the fetch
\* that verifies it are in one try block; an error of either leads to the
\* catch block, whose fetch pushes the existing PDA or, failing too, only
\* logs the error
createAllStoragePdas(i, created, verified, found) ==
    IF created /\ verified THEN <<[index |-> i, transaction |-> "tx"]>>
    ELSE IF found THEN <<[index |-> i, transaction |-> "existing"]>>
    ELSE <<>>

\* results.storagePDAs[targetPdaIndex]: the entry at that position of the
\* array
StoragePdaFor(storagePDAs, targetPdaIndex) == storagePDAs[targetPdaIndex + 1]

\* the button is clicked
callVoiceChatSystem ==
    /\ system.pc \in {"idle", "returned"}
    /\ system.calls < MaxRuns
    /\ system' = [NoSystem EXCEPT !.pc = "storage", !.calls = system.calls + 1]

\* step 1, one turn of for (let i = 0; i < 10; i++), with the answers of the
\* ledger to the transaction and to the two fetches
StoragePDAStep(created, verified, found) ==
    /\ system.pc = "storage"
    /\ system' = [system EXCEPT
                    !.storagePDAs = @ \o createAllStoragePdas(system.i, created,
                                                             verified, found),
                    !.i = @ + 1,
                    !.pc = IF system.i + 1 < NumPDAs THEN "storage" ELSE "room"]

\* step 2: results.voiceRoom is set when the room was created or found
initializeVoiceRoom(ok) ==
    /\ system.pc = "room"
    /\ system' = [system EXCEPT !.voiceRoom = ok, !.pc = "send"]

\* step 3: the sample voice data is sent with targetPdaIndex and the storage
\* account taken from results.storagePDAs; an error of the transaction is
\* only logged
sendVoiceData(ok) ==
    /\ system.pc = "send"
    /\ system' =
         IF Len(system.storagePDAs) > 0 /\ system.voiceRoom
         THEN [system EXCEPT
                 !.pc = "returned",
                 !.sent = [attempted |-> TRUE,
                           targetPdaIndex |-> TargetPdaIndex,
                           storagePda |-> StoragePdaFor(system.storagePDAs,
                                                        TargetPdaIndex).index,
                           ok |-> ok]]
         ELSE [system EXCEPT !.pc = "returned"]

SystemOnly ==
    UNCHANGED <<users, rooms, messages, storage, last, demo, ledger, run, caller,
                info, derived>>

NextSystem ==
    \/ callVoiceChatSystem /\ SystemOnly
    \/ \E created, verified, found \in BOOLEAN :
          StoragePDAStep(created, verified, found) /\ SystemOnly
    \/ \E ok \in BOOLEAN : initializeVoiceRoom(ok) /\ SystemOnly
    \/ \E ok \in BOOLEAN : sendVoiceData(ok) /\ SystemOnly

\* SpecSystem follows up to MaxRuns button clicks, one after the other; the
\* ledger is free in each answer
SpecSystem == Constructed /\ [][NextSystem]_vars

\* C37: in callVoiceChatSystem the sample voice data declared for target
\* index 0 goes to the storage PDA whose own index is 0, in every outcome of
\* the creations: whenever the call sends the data, the storage account it
\* passes is that of PDA 0.
C37_SampleGoesToPDAZero ==
    system.sent.attempted
    => /\ system.sent.targetPdaIndex = 0
       /\ system.sent.storagePda = 0


----------------------------------------------------------------------------
(* The address of a PDA, as the client helpers derive it *)

\* the owners whose PDAs are looked up; a number stands for the 32 bytes of
\* authority.toBuffer()
Owners == {1, 2}

\* the indexes looked up: the first two, the last one that fits one byte
\* and the first two that do not
Indexes == {0, 1, 255, 256, 257}

\* Buffer.from("pda")
PdaSeed == <<112, 100, 97>>

\* Buffer.from(new Uint16Array([pdaIndex]).buffer): the two bytes of the
\* 16-bit value, low byte first
Uint16Array(pdaIndex) == <<(pdaIndex % 65536) % 256, (pdaIndex % 65536) \div 256>>

\* Buffer.allocUnsafe(2) after writeUInt16LE(i, 0)
writeUInt16LE(i) == <<i % 256, (i \div 256) % 256>>

\* Buffer.from([index]): one byte, the value modulo 256
BufferFrom(index) == <<index % 256>>

\* the bytes that a helper passes as the third seed
IndexSeed(helper, index) ==
    CASE helper = "createPDAAccount" -> Uint16Array(index)
      [] helper = "callSmartContract" -> writeUInt16LE(index)
      [] helper = "createSinglePDA" -> BufferFrom(index)
      [] helper = "getAllPDAs" -> BufferFrom(index)

\* PublicKey.findProgramAddressSync(seeds, programId) for one program: the
\* address is a hash of the seeds joined end to end, so it is written as the
\* joined seeds; equal addresses are equal hash inputs
findProgramAddressSync(seeds) == seeds[1] \o seeds[2] \o seeds[3]

\* the address that a helper derives for PDA index of authority
PdaAddress(helper, authority, index) ==
    findProgramAddressSync(<<PdaSeed, <<authority>>, IndexSeed(helper, index)>>)

\* a helper derives the address of the PDA that is looked up
Derive(helper) ==
    /\ derived.by[helper] = <<>>
    /\ derived' = [derived EXCEPT
                     !.by[helper] = PdaAddress(helper, derived.owner, derived.index)]

DerivedOnly ==
    UNCHANGED <<users, rooms, messages, storage, last, demo, ledger, run, caller,
                info, system>>

\* a PDA of an owner is looked up and no helper has derived its address yet
LookedUp ==
    /\ users = <<>>
    /\ rooms = <<>>
    /\ messages = <<>>
    /\ storage = <<>>
    /\ last = Call("constructor", <<>>, Ok, <<>>)
    /\ demo = NoScript
    /\ ledger = NoAccount
    /\ run = NoRun
    /\ caller = NoCaller
    /\ info = NoInfo
    /\ system = NoSystem
    /\ \E authority \in Owners, index \in Indexes :
          derived = [NoDerivation EXCEPT !.owner = authority, !.index = index]

NextDerived ==
    \/ Derive("createPDAAccount") /\ DerivedOnly
    \/ Derive("createSinglePDA") /\ DerivedOnly
    \/ Derive("getAllPDAs") /\ DerivedOnly
    \/ Derive("callSmartContract") /\ DerivedOnly

\* SpecDerived lets the four helpers derive, in any order, the address of one
\* PDA of one owner
SpecDerived == LookedUp /\ [][NextDerived]_vars

\* C38: for the same owner and the same index below 256, every client helper
\* derives the same address: any two helpers that have derived the address
\* of the PDA looked up have derived the same one.
C38_HelpersAgreeOnAddress ==
    derived.index < 256
    => \A g, h \in Helpers :
          (derived.by[g] # <<>> /\ derived.by[h] # <<>>)
          => derived.by[g] = derived.by[h]

====
